---- MODULE Spec2Model ----
(***************************************************************************)
(* Model of the Trivy pull-request commenter.  The repository holds four   *)
(* near-duplicate programs, each a single main() run once per process:     *)
(*   "main"       src/main.go                     (vulnerability list with  *)
(*                                                 Occurrences)             *)
(*   "commenter"  src/cmd/commenter/commenter.go  (results, first           *)
(*                                                 misconfiguration only)   *)
(*   "tfreport"   src/unnamed/part_000:26-254     (results, misconfigura-   *)
(*                                                 tions, occurrences)      *)
(*   "trivytypes" src/unnamed/part_000:256-486    (trivy report types,      *)
(*                                                 PR_NUMBER variable)      *)
(* main() is cut into steps at its reads of the environment and at its     *)
(* calls of the external comment client.                                   *)
(***************************************************************************)
EXTENDS Integers, Sequences, FiniteSets, TLC

VARIABLES variant, pc, event, reportFile, report, client, i, j,
          errMessages, validCommentWritten, posts, stdout,
          softFail, exit, panicked, token, repository, call

vars == <<variant, pc, event, reportFile, report, client, i, j,
          errMessages, validCommentWritten, posts, stdout,
          softFail, exit, panicked, token, repository, call>>

\* ---------------------------------------------------------------- bounds
MaxResults == 2
MaxMisconfs == 2
MaxOccs == 2
MaxLocations == 3
MaxPathLen == 3
MaxDirLen == 2
MaxWorkspaceLen == 1
MaxUrls == 2

\* ------------------------------------------------------------- constants
Variants == {"main", "commenter", "tfreport", "trivytypes"}

\* the dispositions of one WriteMultiLineComment call: nil, the two typed
\* errors of the client library, any other error
Dispositions == {"Success", "AlreadyWritten", "NotValid", "Generic"}

\* os.Exit keeps the low 8 bits of its argument
ExitStatus(n) == n % 256

\* an unrecovered Go panic ends the process with status 2
PanicStatus == 1 + 1

SeqsUpTo(S, n) == UNION {[1..m -> S] : m \in 0..n}

RECURSIVE Flatten(_)
Flatten(ss) == IF ss = <<>> THEN <<>> ELSE Head(ss) \o Flatten(Tail(ss))

RECURSIVE SumSeq(_)
SumSeq(s) == IF s = <<>> THEN 0 ELSE Head(s) + SumSeq(Tail(s))

\* ---------------------------------------------------------------- reports
\* A location carries its own line range; the lines are derived from the
\* position in the report so that every location of a report is distinct.
Location(a, b, c) ==
    [StartLine |-> 100 * a + 10 * b + c, EndLine |-> 100 * a + 10 * b + c + 1]

\* []TrivyVulnerability, each with Occurrences
MainReports ==
    { [a \in 1..Len(s) |->
          [Occurrences |-> [c \in 1..s[a] |-> Location(a, 0, c)]]] :
      s \in {t \in SeqsUpTo(0..MaxOccs, MaxResults) : SumSeq(t) <= MaxLocations} }

\* []TrivyResult, each with Misconfigurations, each with
\* CauseMetadata.Occurrences
TfResultShapes ==
    {t \in SeqsUpTo(0..MaxOccs, MaxMisconfs) : SumSeq(t) <= MaxLocations}

TfReports ==
    { [a \in 1..Len(s) |->
          [Misconfigurations |-> [b \in 1..Len(s[a]) |->
              [Occurrences |-> [c \in 1..s[a][b] |-> Location(a, b, c)]]]]] :
      s \in {t \in SeqsUpTo(TfResultShapes, MaxResults) :
                SumSeq([a \in 1..Len(t) |-> SumSeq(t[a])]) <= MaxLocations} }

\* []result, each with Misconfigurations carrying CauseMetadata lines
CommenterReports ==
    { [a \in 1..Len(s) |->
          [Misconfigurations |-> [b \in 1..s[a] |->
              [CauseMetadata |-> Location(a, b, 0)]]]] :
      s \in {t \in SeqsUpTo(0..MaxMisconfs, MaxResults) : SumSeq(t) <= MaxLocations} }

\* trivyTypes.Report.Results; Config stands for
\* Class == "config" || Type == "terraform"
TypesReports ==
    { [a \in 1..Len(s) |->
          [Config |-> s[a][1],
           Misconfigurations |-> [b \in 1..s[a][2] |->
              [CauseMetadata |-> Location(a, b, 0)]]]] :
      s \in {t \in SeqsUpTo(BOOLEAN \X (0..MaxMisconfs), MaxResults) :
                SumSeq([a \in 1..Len(t) |-> t[a][2]]) <= MaxLocations} }

Reports(v) ==
    CASE v = "main" -> MainReports
      [] v = "commenter" -> CommenterReports
      [] v = "tfreport" -> TfReports
      [] v = "trivytypes" -> TypesReports

\* ------------------------------------------------------- start-up helpers
\* fail(): the three older programs call os.Exit(-1), the trivy-types one
\* os.Exit(1)
FailCode(v) == IF v = "trivytypes" THEN 1 ELSE -1

Fatal(reason) == [kind |-> "fatal", msg |-> [disp |-> reason, call |-> 0]]

\* values of INPUT_GITHUB_TOKEN: unset or empty, and set
Tokens == {"", "ghp"}

\* the token test left out
TokenMissing_NeverChecked(t) == FALSE

\* len(token) == 0
TokenMissing(t) == t = ""

\* values of GITHUB_REPOSITORY, as sequences of characters
Repositories ==
    { <<>>, <<"o">>, <<"o", "/", "r">>, <<"o", "/", "r", "/", "x">> }

\* strings.Split(s, "/"): the pieces of s between the slashes
RECURSIVE Split(_)
Split(s) ==
    IF \A n \in 1..Len(s) : s[n] # "/" THEN <<s>>
    ELSE LET n == CHOOSE m \in 1..Len(s) :
                    s[m] = "/" /\ \A k \in 1..(m - 1) : s[k] # "/"
         IN <<SubSeq(s, 1, n - 1)>> \o Split(SubSeq(s, n + 1, Len(s)))

\* no pure-function call recorded
NoCall == [op |-> "none"]

\* what the pull-request number is read from: the event payload file
\* /github/workflow/event.json, or the PR_NUMBER variable
Events(v) ==
    IF v = "trivytypes"
    THEN {"unset", "nonInteger", "number"}
    ELSE {"absent", "invalidJSON", "nonObject", "noNumber", "number"}

\* the strconv.Atoi error dropped: a payload without a number goes on as
\* pull request 0
ExtractPullRequestNumber_IgnoreAtoi(v, e) ==
    CASE e = "number" -> "ok"
      [] e \in {"unset", "nonInteger"} -> "notpr"
      [] e = "absent" -> "fail"
      [] e = "invalidJSON" -> "notpr"
      [] e = "nonObject" -> IF v = "commenter" THEN "notpr" ELSE "panic"
      [] e = "noNumber" -> "ok"

\* extractPullRequestNumber as seen by main():
\*   "fail"  fail() ended the process inside the function
\*   "panic" the type assertion data.(map[string]interface{}) failed
\*   "notpr" an error was returned
\*   "ok"    a number was returned
ExtractPullRequestNumber(v, e) ==
    CASE e = "number" -> "ok"
      [] e \in {"unset", "nonInteger"} -> "notpr"
      [] e = "absent" -> "fail"
      [] e = "invalidJSON" -> "notpr"
      [] e = "nonObject" -> IF v = "commenter" THEN "notpr" ELSE "panic"
      [] e = "noNumber" -> "notpr"

\* the emptiness test written as a test for a negative length
IsEmptyReport_NeverEmpty(r) == Len(r) < 0

\* len(vulnerabilities) == 0 / len(results) == 0
IsEmptyReport(r) == Len(r) = 0

\* createCommenter: the pair (c, err) it returns.  In the enterprise branch
\* `url, err := url.Parse(...)` declares a new err, so the err returned is
\* the outer one, which is still nil.
CreateCommenter(api, ctorOk) ==
    CASE api = "public" ->
            IF ctorOk THEN [c |-> "ok", err |-> FALSE]
                      ELSE [c |-> "nil", err |-> TRUE]
      [] api = "enterprise" ->
            IF ctorOk THEN [c |-> "ok", err |-> FALSE]
                      ELSE [c |-> "nil", err |-> FALSE]
      [] api = "unparsable" -> [c |-> "nil", err |-> FALSE]

\* -------------------------------------------------------- dispatch helpers
\* the programs that switch on the error type
IsTypeSwitch(v) == v \in {"commenter", "trivytypes"}

\* result.Misconfigurations[0] on an empty list
IndexPanics(v, r) == v = "commenter" /\ Len(r.Misconfigurations) = 0

\* the locations the loops over one element of the report visit, in order
Locations(v, r) ==
    CASE v = "main" -> r.Occurrences
      [] v = "tfreport" ->
            Flatten([b \in 1..Len(r.Misconfigurations) |->
                        r.Misconfigurations[b].Occurrences])
      [] v = "commenter" ->
            IF Len(r.Misconfigurations) = 0 THEN <<>>
            ELSE <<r.Misconfigurations[1].CauseMetadata>>
      [] v = "trivytypes" ->
            IF ~r.Config THEN <<>>
            ELSE [b \in 1..Len(r.Misconfigurations) |->
                     r.Misconfigurations[b].CauseMetadata]

\* err.Error() of the n-th call
Message(d, n) == [disp |-> d, call |-> n]

\* is the error of this disposition appended to errMessages
Recorded(v, d) ==
    IF IsTypeSwitch(v) THEN d = "Generic" ELSE d # "Success"

\* does this disposition set validCommentWritten
Written(v, d) ==
    IF IsTypeSwitch(v) THEN d \in {"Success", "AlreadyWritten"}
                       ELSE d = "Success"

\* is err.Error() printed as soon as the call returns
Echoed(v, d) == v # "commenter" /\ d # "Success"

\* ------------------------------------------------------------ exit policy
SoftFailValues == {"unset", "TRUE", "false"}

ToLower(s) == IF s = "TRUE" THEN "true" ELSE s

\* os.LookupEnv("INPUT_SOFT_FAIL_COMMENTER") ok && strings.ToLower(v) == "true"
SoftFailEnabled(env) == env # "unset" /\ ToLower(env) = "true"

\* the condition of the second if after the loop
ReportsOutcome(v, written, errs) ==
    IF v = "commenter" THEN written \/ Len(errs) > 0
                       ELSE written \/ Len(errs) = 0

\* the soft-fail variable consulted only when no comment was written
ExitDecision_SoftFailOnlyWhenNothingWritten(v, written, errs, env) ==
    IF Len(errs) > 0 THEN 1
    ELSE IF written THEN 0
    ELSE IF SoftFailEnabled(env) THEN 0 ELSE 1

\* the code main() ends with once the loop is over
ExitDecision(v, written, errs, env) ==
    IF Len(errs) > 0 THEN 1
    ELSE IF ReportsOutcome(v, written, errs)
         THEN (IF SoftFailEnabled(env) THEN 0 ELSE 1)
         ELSE 0

Summary(errs) == [n \in 1..Len(errs) |-> [kind |-> "summary", msg |-> errs[n]]]

\* ------------------------------------------------------------------ paths
\* strings are sequences of characters
Chars == {".", "/", "a"}

DotSlash == <<".", "/">>

HasPrefix(s, p) == Len(s) >= Len(p) /\ SubSeq(s, 1, Len(p)) = p

HasSuffix(s, p) ==
    Len(s) >= Len(p) /\ SubSeq(s, Len(s) - Len(p) + 1, Len(s)) = p

\* strings.TrimPrefix
TrimPrefix(s, p) ==
    IF HasPrefix(s, p) THEN SubSeq(s, Len(p) + 1, Len(s)) ELSE s

\* strings.TrimSuffix
TrimSuffix(s, p) ==
    IF HasSuffix(s, p) THEN SubSeq(s, 1, Len(s) - Len(p)) ELSE s

\* strings.ReplaceAll(s, old, "") for a non-empty old: every
\* non-overlapping occurrence, found from the left, is removed
RECURSIVE RemoveAll(_, _)
RemoveAll(s, old) ==
    IF Len(s) < Len(old) THEN s
    ELSE IF HasPrefix(s, old)
         THEN RemoveAll(SubSeq(s, Len(old) + 1, Len(s)), old)
         ELSE <<Head(s)>> \o RemoveAll(Tail(s), old)

\* fmt.Sprintf("%s/", os.Getenv("GITHUB_WORKSPACE"))
WorkspacePath(ws) == ws \o <<"/">>

\* INPUT_WORKING_DIRECTORY as the loop uses it
WorkingDir(wd) ==
    IF wd = <<>> THEN <<>>
    ELSE TrimSuffix(TrimPrefix(wd, DotSlash), <<"/">>) \o <<"/">>

\* the file name handed to WriteMultiLineComment; commenter.go has no
\* TrimPrefix
NormalizePath(v, wd, ws, f) ==
    LET joined == WorkingDir(wd) \o RemoveAll(f, WorkspacePath(ws))
    IN IF v = "commenter" THEN joined ELSE TrimPrefix(joined, DotSlash)

PathCalls ==
    { [op |-> "normalize", stage |-> "input", workingDir |-> wd,
       workspace |-> ws, filename |-> f, out |-> <<>>, again |-> <<>>] :
      wd \in SeqsUpTo(Chars, MaxDirLen),
      ws \in SeqsUpTo(Chars \ {"/"}, MaxWorkspaceLen),
      f \in SeqsUpTo(Chars, MaxPathLen) }

\* -------------------------------------------------------------- rendering
\* a comment body is a sequence of pieces: literal or substituted text, a
\* markdown link labelled "here", the joiner " and "
Text(v) == [t |-> "text", v |-> v]

Link(u) == [t |-> "link", v |-> u]

Joiner == [t |-> "and", v |-> " and "]

\* formatUrls
RECURSIVE FormatUrlsFrom(_, _)
FormatUrlsFrom(urlList, urls) ==
    IF urls = <<>> THEN urlList
    ELSE FormatUrlsFrom(
            (IF urlList # <<>> THEN Append(urlList, Joiner) ELSE urlList)
               \o <<Link(Head(urls))>>,
            Tail(urls))

FormatUrls(urls) == FormatUrlsFrom(<<>>, urls)

\* generateErrorMessage of each program
GenerateErrorMessage(v, f) ==
    CASE v = "main" ->
            <<Text(":warning: Trivy found a"), Text(f.Severity),
              Text("severity vulnerability (ID:"), Text(f.ID), Text("in"),
              Text(f.Target), Text(f.Description),
              Text("More information available at"), Text(f.PrimaryURL)>>
      [] v = "tfreport" ->
            <<Text(":warning: Trivy found a"), Text(f.Severity),
              Text("severity vulnerability (ID:"), Text(f.ID),
              Text(f.Description),
              Text("More information available at"), Text(f.PrimaryURL)>>
      [] v = "commenter" ->
            <<Text(":warning: trivy found a"), Text(f.Severity),
              Text("severity issue from rule"), Text(f.ID),
              Text(f.Description), Text("More information available")>>
               \o FormatUrls(f.References)
      [] v = "trivytypes" ->
            <<Text(":warning: trivy found a"), Text(f.Severity),
              Text("severity issue from rule"), Text(f.ID),
              Text(f.Message), Text("More information available")>>
               \o FormatUrls(f.References)

Urls == {"u1", "u2"}

Findings ==
    [Severity : {"HIGH", "LOW"}, ID : {"AVD-1"}, Target : {"main.tf"},
     Description : {"d1", "d2"}, Message : {"d1"}, PrimaryURL : {"u1"},
     References : SeqsUpTo(Urls, MaxUrls)]

RenderCalls ==
    { [op |-> "render", stage |-> "input", finding |-> f, body |-> <<>>] :
      f \in Findings }

\* ------------------------------------------------------------------ Init
\* the process before its first statement
ProcessStart ==
    /\ variant \in Variants
    /\ pc = "token"
    /\ event = "unread"
    /\ reportFile = "unread"
    /\ report = <<>>
    /\ client = "none"
    /\ i = 1
    /\ j = 1
    /\ errMessages = <<>>
    /\ validCommentWritten = FALSE
    /\ posts = <<>>
    /\ stdout = <<>>
    /\ softFail = "unread"
    /\ exit = <<>>
    /\ panicked = "no"
    /\ token = <<>>
    /\ repository = <<>>

Init ==
    /\ ProcessStart
    /\ call = NoCall

\* the process ends with os.Exit(code) or by returning from main (code 0)
Terminate(code) ==
    /\ pc' = "done"
    /\ exit' = <<ExitStatus(code)>>

FailWith(reason) ==
    /\ stdout' = Append(stdout, Fatal(reason))
    /\ Terminate(FailCode(variant))
    /\ panicked' = panicked

Panic(reason) ==
    /\ pc' = "done"
    /\ exit' = <<PanicStatus>>
    /\ panicked' = reason

\* --------------------------------------------------------------- actions
CheckToken ==
    /\ pc = "token"
    /\ \E t \in Tokens :
          /\ token' = <<t>>
          /\ IF ~TokenMissing(t)
             THEN /\ pc' = "repository"
                  /\ UNCHANGED <<stdout, exit, panicked>>
             ELSE FailWith("token")
    /\ UNCHANGED <<repository, call>>
    /\ UNCHANGED <<variant, event, reportFile, report, client, i, j,
                   errMessages, validCommentWritten, posts, softFail>>

CheckRepository ==
    /\ pc = "repository"
    /\ \E r \in Repositories :
          /\ repository' = <<r>>
          /\ IF Len(Split(r)) = 2
             THEN /\ pc' = "prnumber"
                  /\ UNCHANGED <<stdout, exit, panicked>>
             ELSE FailWith("repository")
    /\ UNCHANGED <<token, call>>
    /\ UNCHANGED <<variant, event, reportFile, report, client, i, j,
                   errMessages, validCommentWritten, posts, softFail>>

ResolvePullRequest ==
    /\ pc = "prnumber"
    /\ \E e \in Events(variant) :
          /\ event' = e
          /\ LET res == ExtractPullRequestNumber(variant, e) IN
             CASE res = "ok" ->
                    /\ pc' = "load"
                    /\ UNCHANGED <<stdout, exit, panicked>>
               [] res = "notpr" ->
                    /\ Terminate(0)
                    /\ UNCHANGED <<stdout, panicked>>
               [] res = "fail" -> FailWith("event payload")
               [] res = "panic" ->
                    /\ Panic("type assertion")
                    /\ UNCHANGED stdout
    /\ UNCHANGED <<token, repository, call>>
    /\ UNCHANGED <<variant, reportFile, report, client, i, j,
                   errMessages, validCommentWritten, posts, softFail>>

LoadReport ==
    /\ pc = "load"
    /\ \/ /\ \E f \in {"absent", "malformed"} : reportFile' = f
          /\ report' = report
          /\ FailWith("report")
       \/ /\ reportFile' = "ok"
          /\ \E r \in Reports(variant) :
                /\ report' = r
                /\ IF IsEmptyReport(r)
                   THEN Terminate(0)
                   ELSE /\ pc' = "create"
                        /\ exit' = exit
          /\ UNCHANGED <<stdout, panicked>>
    /\ UNCHANGED <<token, repository, call>>
    /\ UNCHANGED <<variant, event, client, i, j,
                   errMessages, validCommentWritten, posts, softFail>>

ConnectClient ==
    /\ pc = "create"
    /\ \E api \in {"public", "enterprise", "unparsable"}, ctorOk \in BOOLEAN :
          LET res == CreateCommenter(api, ctorOk) IN
          IF res.err
          THEN /\ FailWith("commenter")
               /\ client' = client
          ELSE /\ client' = res.c
               /\ pc' = "dispatch"
               /\ UNCHANGED <<stdout, exit, panicked>>
    /\ UNCHANGED <<token, repository, call>>
    /\ UNCHANGED <<variant, event, reportFile, report, i, j,
                   errMessages, validCommentWritten, posts, softFail>>

AtLocation ==
    /\ pc = "dispatch"
    /\ i <= Len(report)
    /\ ~IndexPanics(variant, report[i])
    /\ j <= Len(Locations(variant, report[i]))

Advance ==
    IF j < Len(Locations(variant, report[i]))
    THEN /\ i' = i
         /\ j' = j + 1
    ELSE /\ i' = i + 1
         /\ j' = 1

\* one c.WriteMultiLineComment call and the handling of what it returns
WriteComment ==
    /\ AtLocation
    /\ client = "ok"
    /\ \E d \in Dispositions :
          LET loc == Locations(variant, report[i])[j]
              n == Len(posts) + 1
              msg == Message(d, n)
          IN /\ posts' = Append(posts, [StartLine |-> loc.StartLine,
                                        EndLine |-> loc.EndLine, disp |-> d])
             /\ errMessages' = IF Recorded(variant, d)
                               THEN Append(errMessages, msg) ELSE errMessages
             /\ validCommentWritten' =
                   (validCommentWritten \/ Written(variant, d))
             /\ stdout' = IF Echoed(variant, d)
                          THEN Append(stdout, [kind |-> "error", msg |-> msg])
                          ELSE stdout
    /\ Advance
    /\ UNCHANGED <<token, repository, call>>
    /\ UNCHANGED <<variant, pc, event, reportFile, report, client,
                   softFail, exit, panicked>>

\* the same call on the nil *Commenter createCommenter returned with a nil
\* error: the method dereferences its receiver
WriteCommentNilClient ==
    /\ AtLocation
    /\ client = "nil"
    /\ LET loc == Locations(variant, report[i])[j] IN
         posts' = Append(posts, [StartLine |-> loc.StartLine,
                                 EndLine |-> loc.EndLine, disp |-> "Panic"])
    /\ Panic("nil pointer")
    /\ UNCHANGED <<token, repository, call>>
    /\ UNCHANGED <<variant, event, reportFile, report, client, i, j,
                   errMessages, validCommentWritten, stdout, softFail>>

\* an element of the report the loops make no call for
SkipResult ==
    /\ pc = "dispatch"
    /\ i <= Len(report)
    /\ ~IndexPanics(variant, report[i])
    /\ Locations(variant, report[i]) = <<>>
    /\ i' = i + 1
    /\ j' = 1
    /\ UNCHANGED <<token, repository, call>>
    /\ UNCHANGED <<variant, pc, event, reportFile, report, client,
                   errMessages, validCommentWritten, posts, stdout,
                   softFail, exit, panicked>>

\* result.Misconfigurations[0] of a result without misconfigurations
IndexOutOfRange ==
    /\ pc = "dispatch"
    /\ i <= Len(report)
    /\ IndexPanics(variant, report[i])
    /\ Panic("index out of range")
    /\ UNCHANGED <<token, repository, call>>
    /\ UNCHANGED <<variant, event, reportFile, report, client, i, j,
                   errMessages, validCommentWritten, posts, stdout, softFail>>

\* after the loop: the error summary and the exit code
Finish ==
    /\ pc = "dispatch"
    /\ i > Len(report)
    /\ \E env \in SoftFailValues :
          /\ softFail' = env
          /\ Terminate(ExitDecision(variant, validCommentWritten,
                                    errMessages, env))
    /\ stdout' = stdout \o Summary(errMessages)
    /\ UNCHANGED <<token, repository, call>>
    /\ UNCHANGED <<variant, event, reportFile, report, client, i, j,
                   errMessages, validCommentWritten, posts, panicked>>

Next ==
    \/ CheckToken
    \/ CheckRepository
    \/ ResolvePullRequest
    \/ LoadReport
    \/ ConnectClient
    \/ WriteComment
    \/ WriteCommentNilClient
    \/ SkipResult
    \/ IndexOutOfRange
    \/ Finish

Spec == Init /\ [][Next]_vars

\* ------------------------------------------- the pure functions on their own
processVars == <<variant, pc, event, reportFile, report, client, i, j,
                 errMessages, validCommentWritten, posts, stdout,
                 softFail, exit, panicked, token, repository>>

PureInit ==
    /\ ProcessStart
    /\ call \in PathCalls \cup RenderCalls

\* the file name of one location, as computed in the loop
NormalizeFilename ==
    /\ call.op = "normalize"
    /\ call.stage = "input"
    /\ call' = [call EXCEPT
                  !.stage = "normalized",
                  !.out = NormalizePath(variant, call.workingDir,
                                        call.workspace, call.filename)]
    /\ UNCHANGED processVars

\* the same computation applied to its own result
NormalizeAgain ==
    /\ call.op = "normalize"
    /\ call.stage = "normalized"
    /\ call' = [call EXCEPT
                  !.stage = "renormalized",
                  !.again = NormalizePath(variant, call.workingDir,
                                          call.workspace, call.out)]
    /\ UNCHANGED processVars

\* the comment body of one finding
RenderComment ==
    /\ call.op = "render"
    /\ call.stage = "input"
    /\ call' = [call EXCEPT
                  !.stage = "rendered",
                  !.body = GenerateErrorMessage(variant, call.finding)]
    /\ UNCHANGED processVars

PureNext ==
    \/ NormalizeFilename
    \/ NormalizeAgain
    \/ RenderComment

PureSpec == PureInit /\ [][PureNext]_vars

\* ---------------------------------------------------------------- claims
Dispatched == client # "none"

SomePost(d) == \E n \in 1..Len(posts) : posts[n].disp = d

\* a step in which the post operation returned disposition d
PostReturned(d) ==
    /\ Len(posts') = Len(posts) + 1
    /\ posts'[Len(posts')].disp = d

PostedPairs ==
    [n \in 1..Len(posts) |->
        [StartLine |-> posts[n].StartLine, EndLine |-> posts[n].EndLine]]

\* the Finding/Location pairs of one element of the report: every
\* occurrence of a vulnerability, every occurrence of every
\* misconfiguration of a result, every misconfiguration of a result (of a
\* config/terraform result in the program that filters on it)
PairsOf(v, r) ==
    CASE v = "main" -> r.Occurrences
      [] v = "tfreport" ->
            Flatten([b \in 1..Len(r.Misconfigurations) |->
                        r.Misconfigurations[b].Occurrences])
      [] v = "commenter" ->
            [b \in 1..Len(r.Misconfigurations) |->
                r.Misconfigurations[b].CauseMetadata]
      [] v = "trivytypes" ->
            IF ~r.Config THEN <<>>
            ELSE [b \in 1..Len(r.Misconfigurations) |->
                     r.Misconfigurations[b].CauseMetadata]

AllPairs == Flatten([a \in 1..Len(report) |-> PairsOf(variant, report[a])])

SummaryPrinted ==
    LET lines == SelectSeq(stdout, LAMBDA o : o.kind = "summary")
    IN [n \in 1..Len(lines) |-> lines[n].msg]

\* C1 as stated: a run in which at least one post returned success and no
\* post returned a generic failure exits with code 0, whatever the
\* soft-fail flag.
C1_ExitZeroWhenCommentWritten ==
    (pc = "done" /\ panicked = "no" /\ SomePost("Success")
        /\ ~SomePost("Generic"))
    => exit = <<0>>

\* C1 amended: a run in which at least one post returned success and that
\* ends with an empty error list exits 0 when soft-fail is enabled and 1
\* when it is not; a run cut short by a runtime panic exits with the panic
\* status instead.
C1_ExitFollowsSoftFail ==
    (pc = "done" /\ SomePost("Success") /\ errMessages = <<>>)
    => exit = IF panicked # "no" THEN <<PanicStatus>>
              ELSE IF SoftFailEnabled(softFail) THEN <<0>> ELSE <<1>>

C1_Witness ==
    /\ pc = "done"
    /\ panicked = "no"
    /\ SomePost("Success")
    /\ errMessages = <<>>
    /\ ~SoftFailEnabled(softFail)
    /\ exit = <<1>>

\* C2: a run that went through the dispatch loop, wrote no comment and
\* recorded no error exits non-zero when soft-fail is not enabled and 0
\* when it is.
C2_NothingWrittenFollowsSoftFail ==
    (pc = "done" /\ Dispatched /\ panicked = "no"
        /\ ~validCommentWritten /\ errMessages = <<>>)
    => IF SoftFailEnabled(softFail) THEN exit = <<0>> ELSE exit # <<0>>

\* C3: if any post returned a generic failure the process exits non-zero
\* and has printed, in order, every recorded error message.
C3_FailureExitsNonZeroAfterPrinting ==
    (pc = "done" /\ SomePost("Generic"))
    => (exit # <<0>> /\ SummaryPrinted = errMessages)

\* C4: a post that signals "comment already written" acts like a
\* successful post: it leaves the error list alone and sets the
\* comment-written flag.
C4_AlreadyWrittenActsAsSuccess ==
    [][PostReturned("AlreadyWritten")
        => (errMessages' = errMessages /\ validCommentWritten' = TRUE)]_vars

\* C5: a post that signals "not part of the diff" is skipped: the error
\* list and the comment-written flag keep their values and the loop goes
\* on.
C5_NotInDiffSkipped ==
    [][PostReturned("NotValid")
        => (/\ errMessages' = errMessages
            /\ validCommentWritten' = validCommentWritten
            /\ pc' = "dispatch")]_vars

\* C6: a run that completes the dispatch loop has invoked the post
\* operation exactly once for every Finding/Location pair of the report,
\* in report order, with that pair's own start and end line.
C6_EveryPairPostedOnce ==
    (pc = "done" /\ client = "ok" /\ panicked = "no")
    => PostedPairs = AllPairs

\* C7: after a post returned a generic failure its message is recorded, no
\* pair is posted twice and every remaining pair is still posted before
\* the exit code is decided.
C7_NoFailFastNoRetry ==
    (pc = "done" /\ panicked = "no" /\ SomePost("Generic"))
    => /\ \A n \in 1..Len(posts) :
             posts[n].disp = "Generic"
             => \E m \in 1..Len(errMessages) :
                   errMessages[m] = Message("Generic", n)
       /\ \A m, n \in 1..Len(posts) :
             PostedPairs[m] = PostedPairs[n] => m = n
       /\ Len(posts) = Len(AllPairs)
       /\ \A n \in 1..Len(posts) : PostedPairs[n] = AllPairs[n]

\* C8: once a report with zero findings is loaded the process has exited
\* with code 0, has not constructed the client and has posted nothing.
C8_EmptyReportExitsZero ==
    (reportFile = "ok" /\ Len(report) = 0)
    => (pc = "done" /\ exit = <<0>> /\ client = "none" /\ posts = <<>>)

C8_Witness ==
    /\ reportFile = "ok"
    /\ Len(report) = 0
    /\ pc = "done"
    /\ exit = <<0>>

\* C9: when the loop stands at a finding without a resolvable location (no
\* occurrences, an empty misconfiguration list) the next step makes no
\* post and goes on to the next finding.
C9_NoLocationSkipped ==
    [][(pc = "dispatch" /\ i <= Len(report)
           /\ PairsOf(variant, report[i]) = <<>>)
        => (pc' = "dispatch" /\ posts' = posts /\ i' = i + 1)]_vars

\* C10 as stated: when no pull-request number can be resolved (payload
\* file absent, payload without a numeric number, PR_NUMBER unset) the
\* process exits 0 without loading the report, constructing the client or
\* posting.
C10_NoPullRequestExitsZero ==
    (event \in {"absent", "invalidJSON", "noNumber", "unset", "nonInteger"})
    => /\ pc = "done"
       /\ exit = <<0>>
       /\ reportFile = "unread"
       /\ client = "none"
       /\ posts = <<>>

\* C10 amended: when no pull-request number is resolved the process ends
\* without loading the report, constructing the client or posting; it
\* exits 0 when the payload is not valid JSON or has no integer number or
\* PR_NUMBER is unset or not an integer, with the status of fail() when
\* the payload file is absent or unreadable, and with the panic status
\* when the payload is JSON but not an object in the programs that assert
\* its type.
C10_NoPullRequestEndsEarly ==
    (event \notin {"unread", "number"})
    => /\ pc = "done"
       /\ reportFile = "unread"
       /\ client = "none"
       /\ posts = <<>>
       /\ exit = CASE event = "absent" -> <<ExitStatus(-1)>>
                   [] event = "nonObject" /\ variant # "commenter" ->
                         <<PanicStatus>>
                   [] OTHER -> <<0>>

C10_Witness ==
    /\ event = "noNumber"
    /\ pc = "done"
    /\ exit = <<0>>
    /\ reportFile = "unread"

\* C11: when the access token is missing, the repository identifier does
\* not split into owner and repo, or the report file cannot be opened or
\* decoded, the process has printed exactly one error message and has
\* terminated with a non-zero exit code, with no client constructed and no
\* post attempted.
C11_FatalErrorsTerminate ==
    (\/ token = <<"">>
     \/ (repository # <<>> /\ Len(Split(repository[1])) # 2)
     \/ reportFile \in {"absent", "malformed"})
    => /\ pc = "done"
       /\ panicked = "no"
       /\ exit # <<>>
       /\ exit # <<0>>
       /\ Len(stdout) = 1
       /\ stdout[1].kind = "fatal"
       /\ client = "none"
       /\ posts = <<>>

C11_Witness ==
    /\ reportFile = "malformed"
    /\ pc = "done"
    /\ exit # <<0>>
    /\ stdout = <<Fatal("report")>>
    /\ client = "none"

\* the path C12 describes: the working-directory prefix followed by the
\* report path with the workspace prefix and a leading "./" stripped
ClaimedPath(wd, ws, f) ==
    WorkingDir(wd) \o TrimPrefix(TrimPrefix(f, WorkspacePath(ws)), DotSlash)

\* C12: the file path handed to the post operation is the working-directory
\* prefix followed by the report path with the workspace-root prefix and a
\* leading "./" stripped; only a prefix of the report path is removed.
C12_PathIsPrefixPlusStrippedPath ==
    (call.op = "normalize" /\ call.stage # "input")
    => call.out = ClaimedPath(call.workingDir, call.workspace, call.filename)

\* C13: normalizing an already-normalized path yields the same path.
C13_NormalizationIdempotent ==
    (call.op = "normalize" /\ call.stage = "renormalized")
    => call.again = call.out

\* the links C14 describes: one per URL, " and " between consecutive ones
ClaimedLinks(urls) ==
    [n \in 1..(IF urls = <<>> THEN 0 ELSE 2 * Len(urls) - 1) |->
        IF n % 2 = 1 THEN Link(urls[(n + 1) \div 2]) ELSE Joiner]

\* C14: the rendered body of a finding with n reference URLs holds exactly
\* n links labelled "here", one per URL in report order, with " and "
\* between consecutive links, and the finding's severity, ID and
\* description verbatim.
C14_BodyHasLinksAndFields ==
    (call.op = "render" /\ call.stage = "rendered")
    => /\ SelectSeq(call.body, LAMBDA b : b.t \in {"link", "and"})
             = ClaimedLinks(call.finding.References)
       /\ \A v \in {call.finding.Severity, call.finding.ID,
                      call.finding.Description} :
             \E n \in 1..Len(call.body) : call.body[n] = Text(v)

\* C15: a client whose construction failed never reaches the dispatch
\* loop: the process has terminated fatally and no post was invoked on it.
C15_FailedClientNeverUsed ==
    (client = "nil")
    => /\ pc = "done"
       /\ exit # <<0>>
       /\ posts = <<>>
       /\ panicked = "no"

====
